---- MODULE Spec2Model ----
(***************************************************************************)
(* Model of the version / kill-switch controller of SayaLens               *)
(* (src/src/main/modules/versionControl.ts).                               *)
(*                                                                         *)
(* Strings are sequences of one-character strings, so that split('.'),     *)
(* Number() and the version-format regular expression are computed and     *)
(* not assumed.  A JSON object is a record with a field `has` naming the   *)
(* properties it carries; a property that is absent holds a fixed default  *)
(* so that equal objects are equal records.                                *)
(* Time is in milliseconds, as returned by Date.now().                     *)
(***************************************************************************)
EXTENDS Integers, Sequences, FiniteSets, TLC

VARIABLES now, cacheFile, pc, call, result, answer, peer, saved, last, host

vars == <<now, cacheFile, pc, call, result, answer, peer, saved, last, host>>

----------------------------------------------------------------------------
(* Time *)

HOUR == 60 * 60 * 1000

\* determineVersionStatus: "cacheAge > 6 * 60 * 60 * 1000"
StaleCacheAge == 6 * 60 * 60 * 1000

\* determineVersionStatus: "cacheAge > 60 * 60 * 1000"
ForceUpdateGrace == 60 * 60 * 1000

\* Date.now() when the process starts; a multiple of HOUR
StartTime == 8 * HOUR

\* bound of the clock: the milliseconds observed after each mark
MaxMillis == 1

\* the instants at which the clock is observed: the start and the two age
\* thresholds after it, each followed by MaxMillis single milliseconds
Instants ==
    {StartTime + mark + ms : mark \in {0, ForceUpdateGrace, StaleCacheAge}, ms \in 0..MaxMillis}

----------------------------------------------------------------------------
(* Strings *)

Digits == {"0", "1", "2", "3", "4", "5", "6", "7", "8", "9"}

DigitValue(c) ==
    CASE c = "0" -> 0 [] c = "1" -> 1 [] c = "2" -> 2 [] c = "3" -> 3
      [] c = "4" -> 4 [] c = "5" -> 5 [] c = "6" -> 6 [] c = "7" -> 7
      [] c = "8" -> 8 [] c = "9" -> 9

\* the version strings of the model
V090 == <<"0", ".", "9", ".", "0">>
V100 == <<"1", ".", "0", ".", "0">>
V101 == <<"1", ".", "0", ".", "1">>
V120 == <<"1", ".", "2", ".", "0">>
V10 == <<"1", ".", "0">>
Vv100 == <<"v", "1", ".", "0", ".", "0">>
NoString == <<>>

\* String.prototype.split('.'): the pieces between the dots
RECURSIVE SplitFrom(_, _, _)
SplitFrom(s, i, piece) ==
    IF i > Len(s) THEN <<piece>>
    ELSE IF s[i] = "." THEN <<piece>> \o SplitFrom(s, i + 1, <<>>)
    ELSE SplitFrom(s, i + 1, Append(piece, s[i]))

Split(s) == SplitFrom(s, 1, <<>>)

AllDigits(piece) == \A i \in 1..Len(piece) : piece[i] \in Digits

RECURSIVE DecimalValue(_, _)
DecimalValue(piece, acc) ==
    IF piece = <<>> THEN acc
    ELSE DecimalValue(Tail(piece), 10 * acc + DigitValue(Head(piece)))

\* Number(piece) for a piece over the digits and the letters of the
\* model's strings (none of which spells a numeric literal such as 1e3 or
\* 0x10): the empty string is 0, a digit string its decimal value, anything
\* else NaN
Number(piece) ==
    IF piece = <<>> THEN [nan |-> FALSE, val |-> 0]
    ELSE IF AllDigits(piece) THEN [nan |-> FALSE, val |-> DecimalValue(piece, 0)]
    ELSE [nan |-> TRUE, val |-> 0]

\* parts[i] || 0 with i counted from 1: undefined, NaN and 0 give 0
PartOrZero(parts, i) ==
    IF i > Len(parts) THEN 0
    ELSE IF Number(parts[i]).nan THEN 0
    ELSE Number(parts[i]).val

\* /^\d+\.\d+\.\d+$/.test(version)
isValidVersionFormat(version) ==
    LET parts == Split(version)
    IN  /\ Len(parts) = 3
        /\ \A i \in 1..3 : parts[i] # <<>> /\ AllDigits(parts[i])

\* Array.prototype.includes on an array of strings
Includes(list, v) == \E i \in 1..Len(list) : list[i] = v

----------------------------------------------------------------------------
(* Version comparison *)

RECURSIVE BelowFrom(_, _, _)
BelowFrom(currentParts, minimumParts, i) ==
    IF i > 3 THEN FALSE
    ELSE IF PartOrZero(currentParts, i) < PartOrZero(minimumParts, i) THEN TRUE
    ELSE IF PartOrZero(currentParts, i) > PartOrZero(minimumParts, i) THEN FALSE
    ELSE BelowFrom(currentParts, minimumParts, i + 1)

\* the loop of isVersionBelow without "|| 0": a comparison with NaN or
\* undefined is false either way, and the loop goes on
RECURSIVE BelowFromNoDefault(_, _, _)
BelowFromNoDefault(currentParts, minimumParts, i) ==
    IF i > 3 THEN FALSE
    ELSE IF \/ i > Len(currentParts) \/ Number(currentParts[i]).nan
            \/ i > Len(minimumParts) \/ Number(minimumParts[i]).nan
    THEN BelowFromNoDefault(currentParts, minimumParts, i + 1)
    ELSE IF Number(currentParts[i]).val < Number(minimumParts[i]).val THEN TRUE
    ELSE IF Number(currentParts[i]).val > Number(minimumParts[i]).val THEN FALSE
    ELSE BelowFromNoDefault(currentParts, minimumParts, i + 1)

\* isVersionBelow comparing the parts as Number gives them
isVersionBelow_NoDefault(current, minimum, minimumIsString) ==
    IF ~minimumIsString THEN FALSE
    ELSE BelowFromNoDefault(Split(current), Split(minimum), 1)

\* isVersionBelow with a loop that stops after the minor component
isVersionBelow_TwoParts(current, minimum, minimumIsString) ==
    IF ~minimumIsString THEN FALSE
    ELSE LET currentParts == Split(current)
             minimumParts == Split(minimum)
         IN  IF PartOrZero(currentParts, 1) # PartOrZero(minimumParts, 1)
             THEN PartOrZero(currentParts, 1) < PartOrZero(minimumParts, 1)
             ELSE PartOrZero(currentParts, 2) < PartOrZero(minimumParts, 2)

\* isVersionBelow(current, minimum); `minimumIsString` is FALSE when the
\* argument is undefined: split then raises inside the try, and the catch
\* returns false
isVersionBelow(current, minimum, minimumIsString) ==
    IF ~minimumIsString THEN FALSE
    ELSE BelowFrom(Split(current), Split(minimum), 1)

RECURSIVE NewerFrom(_, _, _)
NewerFrom(remoteParts, localParts, i) ==
    IF i > 3 THEN FALSE
    ELSE IF PartOrZero(remoteParts, i) > PartOrZero(localParts, i) THEN TRUE
    ELSE IF PartOrZero(remoteParts, i) < PartOrZero(localParts, i) THEN FALSE
    ELSE NewerFrom(remoteParts, localParts, i + 1)

\* isVersionNewer ending in "return true": equal versions count as newer
isVersionNewer_OrEqual(remote, local) ==
    \/ NewerFrom(Split(remote), Split(local), 1)
    \/ ~NewerFrom(Split(local), Split(remote), 1)

\* isVersionNewer(remote, local), both arguments strings
isVersionNewer(remote, local) == NewerFrom(Split(remote), Split(local), 1)

----------------------------------------------------------------------------
(* JSON documents: VersionConfig *)

RequiredFields ==
    {"minimumVersion", "latestVersion", "isKillSwitchActive", "updateMessage", "downloadUrl"}

ListFields == {"deprecatedVersions", "forceUpdateVersions"}

\* a VersionConfig-shaped JSON object; updateMessage and downloadUrl are
\* opaque, only their presence is kept (in has)
Doc(has, minimumVersion, latestVersion, isKillSwitchActive, deprecatedVersions, forceUpdateVersions, lastUpdated) ==
    [has |-> has,
     minimumVersion |-> IF "minimumVersion" \in has THEN minimumVersion ELSE NoString,
     latestVersion |-> IF "latestVersion" \in has THEN latestVersion ELSE NoString,
     isKillSwitchActive |-> IF "isKillSwitchActive" \in has THEN isKillSwitchActive ELSE FALSE,
     deprecatedVersions |-> IF "deprecatedVersions" \in has THEN deprecatedVersions ELSE <<>>,
     forceUpdateVersions |-> IF "forceUpdateVersions" \in has THEN forceUpdateVersions ELSE <<>>,
     lastUpdated |-> IF "lastUpdated" \in has THEN lastUpdated ELSE 0]

AllFields == RequiredFields \cup ListFields

Without(doc, field) ==
    Doc(doc.has \ {field}, doc.minimumVersion, doc.latestVersion, doc.isKillSwitchActive,
        doc.deprecatedVersions, doc.forceUpdateVersions, doc.lastUpdated)

\* a fallbackConfig whose minimumVersion is the latest release
fallbackConfig_MinimumIsLatest ==
    Doc(AllFields \cup {"lastUpdated"}, V120, V120, FALSE, <<>>, <<>>, StartTime)

\* the constructor's fallbackConfig; lastUpdated is Date.now() at construction
fallbackConfig ==
    Doc(AllFields \cup {"lastUpdated"}, V100, V100, FALSE, <<>>, <<>>, StartTime)

\* a lastUpdated value carried by a payload
PayloadStamp == StartTime - HOUR

\* the documents the policy server may serve
DocPolicy == Doc(AllFields, V100, V120, FALSE, <<V100>>, <<V101>>, 0)
DocKillSwitch == Doc(AllFields \cup {"lastUpdated"}, V100, V120, TRUE, <<V100>>, <<V101>>, PayloadStamp)
DocRaisedMinimum == Doc(AllFields, V120, V120, FALSE, <<>>, <<V101>>, 0)
DocBadEntries == Doc(AllFields, V100, V120, FALSE, <<V10>>, <<Vv100>>, 0)
DocNoLists == Doc(RequiredFields, V100, V120, FALSE, <<>>, <<>>, 0)
DocNoListsKillSwitch == Doc(RequiredFields, V100, V120, TRUE, <<>>, <<>>, 0)
DocBadMinimum == Doc(AllFields, V10, V120, FALSE, <<>>, <<>>, 0)
DocBadLatest == Doc(AllFields, V100, Vv100, TRUE, <<>>, <<>>, 0)
DocOnlyMinimum == Doc({"minimumVersion"}, V100, NoString, FALSE, <<>>, <<>>, 0)

ServedDocs ==
    {DocPolicy, DocKillSwitch, DocRaisedMinimum, DocBadEntries, DocNoLists,
     DocNoListsKillSwitch, DocBadMinimum, DocBadLatest, DocOnlyMinimum}
        \cup {Without(DocKillSwitch, f) : f \in RequiredFields}

\* validateConfig without the format test of the two version fields
validateConfig_FieldsOnly(config) ==
    LET missing == {field \in RequiredFields : field \notin config.has}
    IN  missing = {}

\* validateConfig requiring only minimumVersion and latestVersion
validateConfig_VersionsOnly(config) ==
    /\ isValidVersionFormat(config.minimumVersion)
    /\ isValidVersionFormat(config.latestVersion)

\* validateConfig(config): TRUE when it returns, FALSE when it throws
validateConfig(config) ==
    LET missing == {field \in RequiredFields : field \notin config.has}
    IN  /\ missing = {}
        /\ isValidVersionFormat(config.minimumVersion)
        /\ isValidVersionFormat(config.latestVersion)

\* a stamp that trusts the payload: lastUpdated is set only when the
\* document carries none
Stamp_TrustsPayload(config, t) ==
    IF "lastUpdated" \in config.has THEN config
    ELSE [config EXCEPT !.has = @ \cup {"lastUpdated"}, !.lastUpdated = t]

\* config.lastUpdated = Date.now()
Stamp(config, t) == [config EXCEPT !.has = @ \cup {"lastUpdated"}, !.lastUpdated = t]

----------------------------------------------------------------------------
(* The cache file *)

NoDoc == Doc({}, NoString, NoString, FALSE, <<>>, <<>>, 0)

\* content of version-cache.json: absent, text that JSON.parse rejects, or
\* a JSON object carrying the properties in has
File(kind, has, config, lastFetched, isOfflineMode) ==
    [kind |-> kind,
     has |-> IF kind = "json" THEN has ELSE {},
     config |-> IF kind = "json" /\ "config" \in has THEN config ELSE NoDoc,
     lastFetched |-> IF kind = "json" /\ "lastFetched" \in has THEN lastFetched ELSE 0,
     isOfflineMode |-> IF kind = "json" /\ "isOfflineMode" \in has THEN isOfflineMode ELSE FALSE]

AbsentFile == File("absent", {}, NoDoc, 0, FALSE)
GarbageFile == File("garbage", {}, NoDoc, 0, FALSE)
EmptyObjectFile == File("json", {}, NoDoc, 0, FALSE)

CacheRecordFields == {"config", "lastFetched", "isOfflineMode"}

\* what may lie in the cache directory when the process starts
InitialCacheFiles == {AbsentFile, GarbageFile, EmptyObjectFile}

\* getCachedConfig stamping the fallback record with the fallback policy's
\* lastUpdated instead of the current time
getCachedConfig_FallbackStampedAtStart(file, t) ==
    IF /\ file.kind = "json"
       /\ "config" \in file.has
       /\ "lastFetched" \in file.has /\ file.lastFetched # 0
    THEN [config |-> file.config, lastFetched |-> file.lastFetched,
          isOfflineMode |-> file.isOfflineMode]
    ELSE [config |-> fallbackConfig, lastFetched |-> fallbackConfig.lastUpdated,
          isOfflineMode |-> TRUE]

\* getCachedConfig returning the fallback record with isOfflineMode false
getCachedConfig_FallbackOnline(file, t) ==
    IF /\ file.kind = "json"
       /\ "config" \in file.has
       /\ "lastFetched" \in file.has /\ file.lastFetched # 0
    THEN [config |-> file.config, lastFetched |-> file.lastFetched,
          isOfflineMode |-> file.isOfflineMode]
    ELSE [config |-> fallbackConfig, lastFetched |-> t, isOfflineMode |-> FALSE]

\* getCachedConfig stamping the record it read with the time of the read
getCachedConfig_StampsRead(file, t) ==
    IF /\ file.kind = "json"
       /\ "config" \in file.has
       /\ "lastFetched" \in file.has /\ file.lastFetched # 0
    THEN [config |-> file.config, lastFetched |-> t,
          isOfflineMode |-> file.isOfflineMode]
    ELSE [config |-> fallbackConfig, lastFetched |-> t, isOfflineMode |-> TRUE]

\* getCachedConfig testing that the two properties are there, not that
\* they are truthy
getCachedConfig_AcceptsPresent(file, t) ==
    IF /\ file.kind = "json"
       /\ "config" \in file.has
       /\ "lastFetched" \in file.has
    THEN [config |-> file.config, lastFetched |-> file.lastFetched,
          isOfflineMode |-> file.isOfflineMode]
    ELSE [config |-> fallbackConfig, lastFetched |-> t, isOfflineMode |-> TRUE]

\* getCachedConfig(): the CachedVersionData it returns at time t
getCachedConfig(file, t) ==
    IF /\ file.kind = "json"
       /\ "config" \in file.has
       /\ "lastFetched" \in file.has /\ file.lastFetched # 0
    THEN [config |-> file.config, lastFetched |-> file.lastFetched,
          isOfflineMode |-> file.isOfflineMode]
    ELSE [config |-> fallbackConfig, lastFetched |-> t, isOfflineMode |-> TRUE]

WriteOutcomes == {"ok", "error", "torn"}

\* cacheConfig(config) at time t: the file afterwards.  writeFileSync
\* either completes, or throws leaving the file as it was, or throws after
\* it has truncated the file (disk full); the exception is swallowed
cacheConfig(file, config, t, outcome) ==
    CASE outcome = "ok" -> File("json", CacheRecordFields, config, t, FALSE)
      [] outcome = "error" -> file
      [] outcome = "torn" -> GarbageFile

----------------------------------------------------------------------------
(* Status determination *)

Statuses == {"allowed", "deprecated", "force_update", "blocked"}

\* raised by undefined.includes(...)
TypeError == "TypeError"

\* determineVersionStatus with the kill switch honoured offline too
determineVersionStatus_KillSwitchOffline(currentVersion, config, isOffline, cacheAge) ==
    IF isOffline /\ cacheAge > StaleCacheAge THEN "allowed"
    ELSE IF config.isKillSwitchActive THEN "blocked"
    ELSE IF "forceUpdateVersions" \notin config.has THEN TypeError
    ELSE IF Includes(config.forceUpdateVersions, currentVersion)
    THEN IF isOffline /\ cacheAge > ForceUpdateGrace THEN "deprecated"
         ELSE "force_update"
    ELSE IF isVersionBelow(currentVersion, config.minimumVersion, "minimumVersion" \in config.has)
    THEN IF isOffline THEN "deprecated" ELSE "blocked"
    ELSE IF "deprecatedVersions" \notin config.has THEN TypeError
    ELSE IF Includes(config.deprecatedVersions, currentVersion) THEN "deprecated"
    ELSE "allowed"

\* determineVersionStatus without the offline downgrade of force_update
determineVersionStatus_NoGrace(currentVersion, config, isOffline, cacheAge) ==
    IF isOffline /\ cacheAge > StaleCacheAge THEN "allowed"
    ELSE IF config.isKillSwitchActive /\ ~isOffline THEN "blocked"
    ELSE IF "forceUpdateVersions" \notin config.has THEN TypeError
    ELSE IF Includes(config.forceUpdateVersions, currentVersion)
    THEN IF FALSE THEN "deprecated"
         ELSE "force_update"
    ELSE IF isVersionBelow(currentVersion, config.minimumVersion, "minimumVersion" \in config.has)
    THEN IF isOffline THEN "deprecated" ELSE "blocked"
    ELSE IF "deprecatedVersions" \notin config.has THEN TypeError
    ELSE IF Includes(config.deprecatedVersions, currentVersion) THEN "deprecated"
    ELSE "allowed"

\* determineVersionStatus with the kill switch tested after forceUpdateVersions
determineVersionStatus_KillSwitchLate(currentVersion, config, isOffline, cacheAge) ==
    IF isOffline /\ cacheAge > StaleCacheAge THEN "allowed"
    ELSE IF "forceUpdateVersions" \notin config.has THEN TypeError
    ELSE IF Includes(config.forceUpdateVersions, currentVersion)
    THEN IF isOffline /\ cacheAge > ForceUpdateGrace THEN "deprecated"
         ELSE "force_update"
    ELSE IF config.isKillSwitchActive /\ ~isOffline THEN "blocked"
    ELSE IF isVersionBelow(currentVersion, config.minimumVersion, "minimumVersion" \in config.has)
    THEN IF isOffline THEN "deprecated" ELSE "blocked"
    ELSE IF "deprecatedVersions" \notin config.has THEN TypeError
    ELSE IF Includes(config.deprecatedVersions, currentVersion) THEN "deprecated"
    ELSE "allowed"

\* determineVersionStatus with maxCacheAge (24 hours) as the stale-cache threshold
determineVersionStatus_StaleAfterDay(currentVersion, config, isOffline, cacheAge) ==
    IF isOffline /\ cacheAge > 24 * HOUR THEN "allowed"
    ELSE IF config.isKillSwitchActive /\ ~isOffline THEN "blocked"
    ELSE IF "forceUpdateVersions" \notin config.has THEN TypeError
    ELSE IF Includes(config.forceUpdateVersions, currentVersion)
    THEN IF isOffline /\ cacheAge > ForceUpdateGrace THEN "deprecated"
         ELSE "force_update"
    ELSE IF isVersionBelow(currentVersion, config.minimumVersion, "minimumVersion" \in config.has)
    THEN IF isOffline THEN "deprecated" ELSE "blocked"
    ELSE IF "deprecatedVersions" \notin config.has THEN TypeError
    ELSE IF Includes(config.deprecatedVersions, currentVersion) THEN "deprecated"
    ELSE "allowed"

\* determineVersionStatus with >= in the grace-period test
determineVersionStatus_GraceInclusive(currentVersion, config, isOffline, cacheAge) ==
    IF isOffline /\ cacheAge > StaleCacheAge THEN "allowed"
    ELSE IF config.isKillSwitchActive /\ ~isOffline THEN "blocked"
    ELSE IF "forceUpdateVersions" \notin config.has THEN TypeError
    ELSE IF Includes(config.forceUpdateVersions, currentVersion)
    THEN IF isOffline /\ cacheAge >= ForceUpdateGrace THEN "deprecated"
         ELSE "force_update"
    ELSE IF isVersionBelow(currentVersion, config.minimumVersion, "minimumVersion" \in config.has)
    THEN IF isOffline THEN "deprecated" ELSE "blocked"
    ELSE IF "deprecatedVersions" \notin config.has THEN TypeError
    ELSE IF Includes(config.deprecatedVersions, currentVersion) THEN "deprecated"
    ELSE "allowed"

\* determineVersionStatus without the offline leniency of the minimum version
determineVersionStatus_StrictMinimum(currentVersion, config, isOffline, cacheAge) ==
    IF isOffline /\ cacheAge > StaleCacheAge THEN "allowed"
    ELSE IF config.isKillSwitchActive /\ ~isOffline THEN "blocked"
    ELSE IF "forceUpdateVersions" \notin config.has THEN TypeError
    ELSE IF Includes(config.forceUpdateVersions, currentVersion)
    THEN IF isOffline /\ cacheAge > ForceUpdateGrace THEN "deprecated"
         ELSE "force_update"
    ELSE IF isVersionBelow(currentVersion, config.minimumVersion, "minimumVersion" \in config.has)
    THEN IF FALSE THEN "deprecated" ELSE "blocked"
    ELSE IF "deprecatedVersions" \notin config.has THEN TypeError
    ELSE IF Includes(config.deprecatedVersions, currentVersion) THEN "deprecated"
    ELSE "allowed"

\* determineVersionStatus with the minimum version tested before
\* forceUpdateVersions
determineVersionStatus_MinimumFirst(currentVersion, config, isOffline, cacheAge) ==
    IF isOffline /\ cacheAge > StaleCacheAge THEN "allowed"
    ELSE IF config.isKillSwitchActive /\ ~isOffline THEN "blocked"
    ELSE IF isVersionBelow(currentVersion, config.minimumVersion, "minimumVersion" \in config.has)
    THEN IF isOffline THEN "deprecated" ELSE "blocked"
    ELSE IF "forceUpdateVersions" \notin config.has THEN TypeError
    ELSE IF Includes(config.forceUpdateVersions, currentVersion)
    THEN IF isOffline /\ cacheAge > ForceUpdateGrace THEN "deprecated"
         ELSE "force_update"
    ELSE IF "deprecatedVersions" \notin config.has THEN TypeError
    ELSE IF Includes(config.deprecatedVersions, currentVersion) THEN "deprecated"
    ELSE "allowed"

\* determineVersionStatus warning about a very stale cache instead of
\* allowing
determineVersionStatus_StaleWarns(currentVersion, config, isOffline, cacheAge) ==
    IF isOffline /\ cacheAge > StaleCacheAge THEN "deprecated"
    ELSE IF config.isKillSwitchActive /\ ~isOffline THEN "blocked"
    ELSE IF "forceUpdateVersions" \notin config.has THEN TypeError
    ELSE IF Includes(config.forceUpdateVersions, currentVersion)
    THEN IF isOffline /\ cacheAge > ForceUpdateGrace THEN "deprecated"
         ELSE "force_update"
    ELSE IF isVersionBelow(currentVersion, config.minimumVersion, "minimumVersion" \in config.has)
    THEN IF isOffline THEN "deprecated" ELSE "blocked"
    ELSE IF "deprecatedVersions" \notin config.has THEN TypeError
    ELSE IF Includes(config.deprecatedVersions, currentVersion) THEN "deprecated"
    ELSE "allowed"

\* determineVersionStatus allowing unconditionally from a cache age of
\* six hours on
determineVersionStatus_StaleInclusive(currentVersion, config, isOffline, cacheAge) ==
    IF isOffline /\ cacheAge >= StaleCacheAge THEN "allowed"
    ELSE IF config.isKillSwitchActive /\ ~isOffline THEN "blocked"
    ELSE IF "forceUpdateVersions" \notin config.has THEN TypeError
    ELSE IF Includes(config.forceUpdateVersions, currentVersion)
    THEN IF isOffline /\ cacheAge > ForceUpdateGrace THEN "deprecated"
         ELSE "force_update"
    ELSE IF isVersionBelow(currentVersion, config.minimumVersion, "minimumVersion" \in config.has)
    THEN IF isOffline THEN "deprecated" ELSE "blocked"
    ELSE IF "deprecatedVersions" \notin config.has THEN TypeError
    ELSE IF Includes(config.deprecatedVersions, currentVersion) THEN "deprecated"
    ELSE "allowed"

\* determineVersionStatus(currentVersion, config, isOffline, cacheAge): the
\* status it returns, or TypeError when it throws
determineVersionStatus(currentVersion, config, isOffline, cacheAge) ==
    IF isOffline /\ cacheAge > StaleCacheAge THEN "allowed"
    ELSE IF config.isKillSwitchActive /\ ~isOffline THEN "blocked"
    ELSE IF "forceUpdateVersions" \notin config.has THEN TypeError
    ELSE IF Includes(config.forceUpdateVersions, currentVersion)
    THEN IF isOffline /\ cacheAge > ForceUpdateGrace THEN "deprecated"
         ELSE "force_update"
    ELSE IF isVersionBelow(currentVersion, config.minimumVersion, "minimumVersion" \in config.has)
    THEN IF isOffline THEN "deprecated" ELSE "blocked"
    ELSE IF "deprecatedVersions" \notin config.has THEN TypeError
    ELSE IF Includes(config.deprecatedVersions, currentVersion) THEN "deprecated"
    ELSE "allowed"

----------------------------------------------------------------------------
(* checkVersionStatus *)

\* what app.getVersion() does: it throws, or returns a version
AccessorOutcomes == {<<"throws">>}
AppVersions == {V090, V101, V120}

\* getCurrentVersion()
getCurrentVersion(accessor) == IF accessor \in AccessorOutcomes THEN V100 ELSE accessor

\* this.networkTimeout
networkTimeout == 10000

\* how the request can end without a JSON object to validate
FetchFailures == {"network_error", "timeout", "http_error", "unparsable_body", "non_object"}

NoNet == [kind |-> "none", doc |-> NoDoc]
Net(kind, doc) == [kind |-> kind, doc |-> IF kind = "document" THEN doc ELSE NoDoc]

\* fetchConfigWithTimeout() from the point where the request has settled
\* at time t: the config it returns, or ok = FALSE when it throws
fetchConfigWithTimeout(net, t) ==
    IF net.kind # "document" THEN [ok |-> FALSE, config |-> NoDoc]
    ELSE LET config == Stamp(net.doc, t)
         IN  IF validateConfig(config) THEN [ok |-> TRUE, config |-> config]
             ELSE [ok |-> FALSE, config |-> NoDoc]

NoResult ==
    [outcome |-> "none", status |-> "none", config |-> NoDoc, userVersion |-> NoString,
     isOffline |-> FALSE, cacheAge |-> 0]

\* the call raised out of checkVersionStatus()
Thrown == [NoResult EXCEPT !.outcome = "thrown"]

Returned(status, config, userVersion, isOffline, cacheAge) ==
    [outcome |-> "returned", status |-> status, config |-> config,
     userVersion |-> userVersion, isOffline |-> isOffline, cacheAge |-> cacheAge]

\* the VersionCheckResult, or Thrown when determineVersionStatus raised
Outcome(status, config, userVersion, isOffline, cacheAge) ==
    IF status = TypeError THEN Thrown
    ELSE Returned(status, config, userVersion, isOffline, cacheAge)

\* checkVersionStatus with a cacheConfig that lets the write error out: it
\* lands in the catch of the fetch and the call goes offline
checkVersionStatus_WriteErrorCaught(currentVersion, net, file, t, writeOutcome) ==
    LET fetched == fetchConfigWithTimeout(net, t)
        online == fetched.ok /\ writeOutcome = "ok"
        written == IF fetched.ok THEN cacheConfig(file, fetched.config, t, writeOutcome) ELSE file
        cachedData == getCachedConfig(written, t)
        config == IF online THEN fetched.config ELSE cachedData.config
        isOffline == ~online
        cacheAge == IF online THEN 0 ELSE t - cachedData.lastFetched
        status == determineVersionStatus(currentVersion, config, isOffline, cacheAge)
    IN  [file |-> written,
         config |-> config, isOffline |-> isOffline, cacheAge |-> cacheAge,
         result |-> Outcome(status, config, currentVersion, isOffline, cacheAge)]

\* checkVersionStatus saving the policy it used on the offline path too
checkVersionStatus_ResavesOffline(currentVersion, net, file, t, writeOutcome) ==
    LET fetched == fetchConfigWithTimeout(net, t)
        cachedData == getCachedConfig(file, t)
        config == IF fetched.ok THEN fetched.config ELSE cachedData.config
        isOffline == ~fetched.ok
        cacheAge == IF fetched.ok THEN 0 ELSE t - cachedData.lastFetched
        status == determineVersionStatus(currentVersion, config, isOffline, cacheAge)
    IN  [file |-> IF fetched.ok THEN cacheConfig(file, config, t, writeOutcome)
                  ELSE cacheConfig(file, config, t, "ok"),
         config |-> config, isOffline |-> isOffline, cacheAge |-> cacheAge,
         result |-> Outcome(status, config, currentVersion, isOffline, cacheAge)]

\* checkVersionStatus of a controller that prefers the policy of a cache
\* record younger than the grace period to the one it has just fetched
checkVersionStatus_PrefersFreshCache(currentVersion, net, file, t, writeOutcome) ==
    LET fetched == fetchConfigWithTimeout(net, t)
        cachedData == getCachedConfig(file, t)
        fresh == ~cachedData.isOfflineMode /\ t - cachedData.lastFetched <= ForceUpdateGrace
        config == IF fetched.ok /\ ~fresh THEN fetched.config ELSE cachedData.config
        isOffline == ~fetched.ok
        cacheAge == IF fetched.ok THEN 0 ELSE t - cachedData.lastFetched
        status == determineVersionStatus(currentVersion, config, isOffline, cacheAge)
    IN  [file |-> IF fetched.ok THEN cacheConfig(file, fetched.config, t, writeOutcome) ELSE file,
         config |-> config, isOffline |-> isOffline, cacheAge |-> cacheAge,
         result |-> Outcome(status, config, currentVersion, isOffline, cacheAge)]

\* the synchronous remainder of checkVersionStatus() once the request has
\* settled at time t: the cache file it leaves and what the caller gets
checkVersionStatus(currentVersion, net, file, t, writeOutcome) ==
    LET fetched == fetchConfigWithTimeout(net, t)
        cachedData == getCachedConfig(file, t)
        config == IF fetched.ok THEN fetched.config ELSE cachedData.config
        isOffline == ~fetched.ok
        cacheAge == IF fetched.ok THEN 0 ELSE t - cachedData.lastFetched
        status == determineVersionStatus(currentVersion, config, isOffline, cacheAge)
    IN  [file |-> IF fetched.ok THEN cacheConfig(file, config, t, writeOutcome) ELSE file,
         config |-> config, isOffline |-> isOffline, cacheAge |-> cacheAge,
         result |-> Outcome(status, config, currentVersion, isOffline, cacheAge)]

\* shouldCheckForUpdates answering true from an age of one hour on
shouldCheckForUpdates_Inclusive(file, t) ==
    LET cached == getCachedConfig(file, t)
        cacheAge == t - cached.lastFetched
    IN  cacheAge >= 60 * 60 * 1000

\* shouldCheckForUpdates asking for a check when there is no cache record
shouldCheckForUpdates_WithoutCache(file, t) ==
    LET cached == getCachedConfig(file, t)
        cacheAge == t - cached.lastFetched
    IN  cached.isOfflineMode \/ cacheAge > 60 * 60 * 1000

\* shouldCheckForUpdates() at time t
shouldCheckForUpdates(file, t) ==
    LET cached == getCachedConfig(file, t)
        cacheAge == t - cached.lastFetched
    IN  cacheAge > 60 * 60 * 1000

----------------------------------------------------------------------------
(* The state machine *)

NoCachedData == [config |-> NoDoc, lastFetched |-> 0, isOfflineMode |-> FALSE]

\* what a synchronous query returned to the host, and the cache file it
\* found
NoAnswer ==
    [op |-> "none", cached |-> NoCachedData, should |-> FALSE, before |-> AbsentFile,
     args |-> <<NoString, NoString>>, value |-> FALSE]

\* the call in progress: its inputs, and the locals config, isOffline and
\* cacheAge of checkVersionStatus() once they are set
NoCall ==
    [accessor |-> NoString, userVersion |-> NoString, startedAt |-> 0, net |-> NoNet,
     cacheBefore |-> AbsentFile, write |-> "none",
     config |-> NoDoc, isOffline |-> FALSE, cacheAge |-> 0]

\* a second controller instance on the same cache file: the position of
\* its checkVersionStatus() call, the call and what it returned, and
\* whether the first instance's call had ended when this one settled
NoPeer ==
    [pc |-> "idle", call |-> NoCall, result |-> NoResult, settledLast |-> FALSE,
     settledAt |-> 0]

\* history: the policy returned by the check whose record the cache file
\* holds, while no other write has touched the file since
NothingSaved == [valid |-> FALSE, policy |-> NoDoc]

\* the history after a check that found `file` and ended as `done`
Saved(before, file, done) ==
    IF /\ done.result.outcome = "returned"
       /\ ~done.isOffline
       /\ done.file = File("json", CacheRecordFields, done.config, done.file.lastFetched, FALSE)
    THEN [valid |-> TRUE, policy |-> done.result.config]
    ELSE IF done.file # file THEN NothingSaved
    ELSE before

\* history: the previous check of this instance that the caller kept, its
\* inputs, the time it ended and how it ended, and the time of the last
\* check so far whose fetch succeeded (0: none)
NoLast == [valid |-> FALSE, call |-> NoCall, at |-> 0, result |-> NoResult, fetchedAt |-> 0]

\* the host application: how far TrayScanner.init() has come ("created",
\* "initialised" or "quit"), the check result it saw last, what started
\* that check ("startup", "timer" or "online"), what handleVersionStatus
\* did with it ("none": not called), and what started the background
\* check in progress
NoHost ==
    [phase |-> "created", seen |-> NoResult, trigger |-> "none", handled |-> "none",
     pending |-> "none"]

Init ==
    /\ now = StartTime
    /\ cacheFile \in InitialCacheFiles
    /\ pc = "idle"
    /\ call = NoCall
    /\ result = NoResult
    /\ answer = NoAnswer
    /\ peer = NoPeer
    /\ saved = NothingSaved
    /\ last = NoLast
    /\ host = NoHost

\* the clock advances; not between a return and the caller's continuation
Tick(t) ==
    /\ pc \in {"idle", "fetch", "body"}
    /\ t > now
    /\ now' = t
    /\ UNCHANGED <<cacheFile, pc, call, result, answer, peer, saved, last, host>>

\* checkVersionStatus() is called: getCurrentVersion(), then fetch() is
\* started and awaited
CallCheckVersionStatus(accessor) ==
    /\ pc = "idle"
    /\ pc' = "fetch"
    /\ call' = [NoCall EXCEPT !.accessor = accessor,
                              !.userVersion = getCurrentVersion(accessor),
                              !.startedAt = now]
    /\ UNCHANGED <<now, cacheFile, result, answer, peer, saved, last, host>>

\* the request has settled with `net`: the rest of the call runs to its end
Settle(net, writeOutcome) ==
    LET done == checkVersionStatus(call.userVersion, net, cacheFile, now, writeOutcome)
    IN  /\ cacheFile' = done.file
        /\ result' = done.result
        /\ pc' = IF done.result.outcome = "thrown" THEN "thrown" ELSE "returned"
        /\ call' = [call EXCEPT !.net = net, !.cacheBefore = cacheFile,
                                !.write = writeOutcome, !.startedAt = 0,
                                !.config = done.config, !.isOffline = done.isOffline,
                                !.cacheAge = done.cacheAge]
        /\ saved' = Saved(saved, cacheFile, done)
        /\ peer' = [peer EXCEPT !.settledLast = FALSE]
        /\ UNCHANGED <<now, answer, last, host>>

\* fetch() rejects: the network is unreachable
FetchRejects ==
    /\ pc = "fetch"
    /\ Settle(Net("network_error", NoDoc), "none")

\* the timer set with this.networkTimeout fires and aborts the request
FetchTimesOut ==
    /\ pc = "fetch"
    /\ now >= call.startedAt + networkTimeout
    /\ Settle(Net("timeout", NoDoc), "none")

\* fetch() resolves with a response; the timer is cleared
FetchResolves(ok) ==
    /\ pc = "fetch"
    /\ IF ok
       THEN /\ pc' = "body"
            /\ UNCHANGED <<now, cacheFile, call, result, answer, peer, saved, last, host>>
       ELSE Settle(Net("http_error", NoDoc), "none")

\* response.json() rejects, or resolves with something that is no object
BodyFails(kind) ==
    /\ pc = "body"
    /\ Settle(Net(kind, NoDoc), "none")

\* response.json() resolves with a document
BodyResolves(doc, writeOutcome) ==
    /\ pc = "body"
    /\ writeOutcome = "none" <=> ~validateConfig(doc)
    /\ Settle(Net("document", doc), writeOutcome)

\* the host calls getCachedConfig()
CallGetCachedConfig ==
    /\ pc = "idle"
    /\ pc' = "answered"
    /\ answer' = [NoAnswer EXCEPT !.op = "getCachedConfig",
                                  !.cached = getCachedConfig(cacheFile, now),
                                  !.before = cacheFile]
    /\ UNCHANGED <<now, cacheFile, call, result, peer, saved, last, host>>

\* the host calls shouldCheckForUpdates()
CallShouldCheckForUpdates ==
    /\ pc = "idle"
    /\ pc' = "answered"
    /\ answer' = [NoAnswer EXCEPT !.op = "shouldCheckForUpdates",
                                  !.should = shouldCheckForUpdates(cacheFile, now),
                                  !.before = cacheFile]
    /\ UNCHANGED <<now, cacheFile, call, result, peer, saved, last, host>>

\* the caller's continuation takes the result (or the exception)
CallerContinues ==
    /\ pc \in {"returned", "thrown", "answered"}
    /\ pc' = "idle"
    /\ call' = NoCall
    /\ result' = NoResult
    /\ answer' = NoAnswer
    /\ UNCHANGED <<now, cacheFile, peer, saved, last, host>>

Next ==
    \/ \E t \in Instants : Tick(t)
    \/ \E accessor \in AccessorOutcomes \cup AppVersions : CallCheckVersionStatus(accessor)
    \/ FetchRejects
    \/ FetchTimesOut
    \/ \E ok \in BOOLEAN : FetchResolves(ok)
    \/ \E kind \in {"unparsable_body", "non_object"} : BodyFails(kind)
    \/ \E doc \in ServedDocs, writeOutcome \in WriteOutcomes \cup {"none"} :
            BodyResolves(doc, writeOutcome)
    \/ CallGetCachedConfig
    \/ CallShouldCheckForUpdates
    \/ CallerContinues

Spec == Init /\ [][Next]_vars

\* the event loop runs what is ready: the clock advances, a timer that is
\* due fires, and a settled call is continued; the network owes nothing
SpecFair ==
    /\ Spec
    /\ WF_vars(\E t \in Instants : Tick(t))
    /\ WF_vars(FetchTimesOut)
    /\ WF_vars(CallerContinues)

\* a second VersionController in the same process, constructed on the same
\* cache directory, has its checkVersionStatus() called
PeerCallsCheckVersionStatus(accessor) ==
    /\ peer.pc = "idle"
    /\ peer' = [NoPeer EXCEPT !.pc = "fetch",
                              !.call = [NoCall EXCEPT !.accessor = accessor,
                                                      !.userVersion = getCurrentVersion(accessor)]]
    /\ UNCHANGED <<now, cacheFile, pc, call, result, answer, saved, last, host>>

\* the second instance's request has settled with `net`: the rest of its
\* call runs to its end on the event loop, not interleaved with the first
PeerSettle(net, writeOutcome) ==
    LET done == checkVersionStatus(peer.call.userVersion, net, cacheFile, now, writeOutcome)
    IN  /\ cacheFile' = done.file
        /\ peer' = [pc |-> IF done.result.outcome = "thrown" THEN "thrown" ELSE "returned",
                    call |-> [peer.call EXCEPT !.net = net, !.cacheBefore = cacheFile,
                                               !.write = writeOutcome,
                                               !.config = done.config,
                                               !.isOffline = done.isOffline,
                                               !.cacheAge = done.cacheAge],
                    result |-> done.result,
                    settledLast |-> pc \in {"returned", "thrown"},
                    settledAt |-> now]
        /\ saved' = Saved(saved, cacheFile, done)
        /\ UNCHANGED <<now, pc, call, result, answer, last, host>>

\* the second instance's fetch() rejects
PeerFetchRejects ==
    /\ peer.pc = "fetch"
    /\ PeerSettle(Net("network_error", NoDoc), "none")

\* the second instance's fetch() resolves with an ok response
PeerFetchResolves ==
    /\ peer.pc = "fetch"
    /\ peer' = [peer EXCEPT !.pc = "body"]
    /\ UNCHANGED <<now, cacheFile, pc, call, result, answer, saved, last, host>>

\* the second instance's response.json() resolves with a document
PeerBodyResolves(doc, writeOutcome) ==
    /\ peer.pc = "body"
    /\ writeOutcome = "none" <=> ~validateConfig(doc)
    /\ PeerSettle(Net("document", doc), writeOutcome)

\* the continuation of the second instance's caller takes the result
PeerContinues ==
    /\ peer.pc \in {"returned", "thrown"}
    /\ peer' = NoPeer
    /\ UNCHANGED <<now, cacheFile, pc, call, result, answer, saved, last, host>>

\* the policies served while two instances check
ConcurrentDocs == {DocPolicy, DocRaisedMinimum, DocNoLists}

\* the instants of the clock while two instances check
ConcurrentInstants == {StartTime + ms : ms \in 0..MaxMillis}

\* two controllers on one cache file, as Promise.all over their
\* checkVersionStatus() calls runs them
NextConcurrent ==
    \/ \E t \in ConcurrentInstants : Tick(t)
    \/ CallCheckVersionStatus(V101)
    \/ FetchRejects
    \/ FetchResolves(TRUE)
    \/ \E doc \in ConcurrentDocs, writeOutcome \in {"ok", "torn"} :
            BodyResolves(doc, writeOutcome)
    \/ CallerContinues
    \/ PeerCallsCheckVersionStatus(V101)
    \/ PeerFetchRejects
    \/ PeerFetchResolves
    \/ \E doc \in ConcurrentDocs, writeOutcome \in {"ok", "torn"} :
            PeerBodyResolves(doc, writeOutcome)
    \/ PeerContinues

SpecConcurrent == Init /\ [][NextConcurrent]_vars

\* the caller's continuation keeps the result of the check that ended and
\* goes on to call again
CallerKeepsResult ==
    /\ pc \in {"returned", "thrown"}
    /\ pc' = "idle"
    /\ call' = NoCall
    /\ result' = NoResult
    /\ last' = [valid |-> TRUE, call |-> call, at |-> now, result |-> result,
                fetchedAt |-> IF call.isOffline THEN last.fetchedAt ELSE now]
    /\ UNCHANGED <<now, cacheFile, answer, peer, saved, host>>

\* the policies served to a caller that checks again and again
RepeatDocs == {DocPolicy, DocKillSwitch, DocNoLists}

\* consecutive checks of one instance whose caller compares their results
NextRepeat ==
    \/ \E t \in ConcurrentInstants : Tick(t)
    \/ \E accessor \in {V090, V101} : CallCheckVersionStatus(accessor)
    \/ FetchRejects
    \/ FetchResolves(TRUE)
    \/ \E doc \in RepeatDocs, writeOutcome \in {"ok", "error"} :
            BodyResolves(doc, writeOutcome)
    \/ CallerKeepsResult

SpecRepeat == Init /\ [][NextRepeat]_vars

\* the policies served before the network goes down
OutageDocs == {DocPolicy, DocNoLists}

\* checks of one instance over the hours of an outage
NextOutage ==
    \/ \E t \in Instants : Tick(t)
    \/ \E accessor \in {V090, V101} : CallCheckVersionStatus(accessor)
    \/ FetchRejects
    \/ FetchResolves(TRUE)
    \/ \E doc \in OutageDocs, writeOutcome \in {"ok", "error"} :
            BodyResolves(doc, writeOutcome)
    \/ CallerKeepsResult

SpecOutage == Init /\ [][NextOutage]_vars

\* handleVersionStatus(versionStatus): "true" or "false" as it returns, or
\* "raised" when one of the analytics or dialog calls it awaits rejects;
\* `response` is the button chosen in the force_update dialog
handleVersionStatus(versionStatus, response, raises) ==
    IF raises THEN "raised"
    ELSE CASE versionStatus.status = "blocked" ->
                  IF versionStatus.isOffline THEN "true" ELSE "false"
           [] versionStatus.status = "force_update" ->
                  IF versionStatus.isOffline /\ response = 0 THEN "true" ELSE "false"
           [] versionStatus.status = "deprecated" -> "true"
           [] versionStatus.status = "allowed" -> "true"
           [] OTHER -> "true"

\* TrayScanner.init() without the try/catch around the version check: an
\* exception leaves init before the modules are initialised
TrayScannerInit_NoCatch(checked, response, raises) ==
    IF checked.outcome = "thrown" THEN [phase |-> "quit", handled |-> "none"]
    ELSE LET shouldContinue == handleVersionStatus(checked, response, raises)
         IN  [phase |-> IF shouldContinue = "true" THEN "initialised" ELSE "quit",
              handled |-> shouldContinue]

\* TrayScanner.init() from the point where checkVersionStatus() has
\* settled: the phase it reaches and what the handler did
TrayScannerInit(checked, response, raises) ==
    IF checked.outcome = "thrown" THEN [phase |-> "initialised", handled |-> "none"]
    ELSE LET shouldContinue == handleVersionStatus(checked, response, raises)
         IN  [phase |-> IF shouldContinue = "false" THEN "quit" ELSE "initialised",
              handled |-> shouldContinue]

\* the process starts: init() constructs the controller and awaits its
\* checkVersionStatus()
HostStarts(accessor) ==
    /\ host.phase = "created"
    /\ CallCheckVersionStatus(accessor)

\* the check has settled: init() handles its result and initialises the
\* modules or quits
HostContinues(response, raises) ==
    /\ host.phase = "created"
    /\ pc \in {"returned", "thrown"}
    /\ LET done == TrayScannerInit(result, response, raises)
       IN  host' = [NoHost EXCEPT !.phase = done.phase, !.seen = result,
                                  !.trigger = "startup", !.handled = done.handled]
    /\ pc' = "idle"
    /\ call' = NoCall
    /\ result' = NoResult
    /\ UNCHANGED <<now, cacheFile, answer, peer, saved, last>>

\* the user launches the application again
HostRestarts ==
    /\ host.phase \in {"initialised", "quit"}
    /\ pc = "idle"
    /\ host' = NoHost
    /\ UNCHANGED <<now, cacheFile, pc, call, result, answer, peer, saved, last>>

\* the policies served at startup
StartupDocs == {DocPolicy, DocKillSwitch, DocRaisedMinimum, DocNoLists}

\* startups of the application, one after the other
NextStartup ==
    \/ \E t \in ConcurrentInstants : Tick(t)
    \/ \E accessor \in AccessorOutcomes \cup AppVersions : HostStarts(accessor)
    \/ FetchRejects
    \/ FetchResolves(TRUE)
    \/ \E doc \in StartupDocs : BodyResolves(doc, "ok")
    \/ \E response \in {0, 1}, raises \in BOOLEAN : HostContinues(response, raises)
    \/ HostRestarts

SpecStartup == Init /\ [][NextStartup]_vars

\* performPeriodicVersionCheck() without its restriction to blocked and
\* force_update: every result goes to handleVersionStatus
performPeriodicVersionCheck_HandlesAll(checked, response, raises) ==
    IF checked.outcome = "thrown" THEN [phase |-> "initialised", handled |-> "none"]
    ELSE LET shouldContinue == handleVersionStatus(checked, response, raises)
         IN  [phase |-> IF shouldContinue = "false" THEN "quit" ELSE "initialised",
              handled |-> shouldContinue]

\* performPeriodicVersionCheck() from the point where checkVersionStatus()
\* has settled: whether the app goes on, and what the handler did
performPeriodicVersionCheck(checked, response, raises) ==
    IF checked.outcome = "thrown" THEN [phase |-> "initialised", handled |-> "none"]
    ELSE IF checked.status \in {"blocked", "force_update"}
    THEN LET shouldContinue == handleVersionStatus(checked, response, raises)
         IN  [phase |-> IF shouldContinue = "false" THEN "quit" ELSE "initialised",
              handled |-> shouldContinue]
    ELSE [phase |-> "initialised", handled |-> "none"]

\* the interval timer of setupPeriodicVersionChecks() fires while no check
\* is running: it asks shouldCheckForUpdates() and starts a background
\* check on true
TimerFires(accessor) ==
    /\ host.phase = "initialised"
    /\ pc = "idle"
    /\ LET should == shouldCheckForUpdates(cacheFile, now)
       IN  /\ answer' = [NoAnswer EXCEPT !.op = "shouldCheckForUpdates",
                                         !.should = should,
                                         !.before = cacheFile]
           /\ IF should
              THEN /\ pc' = "fetch"
                   /\ call' = [NoCall EXCEPT !.accessor = accessor,
                                             !.userVersion = getCurrentVersion(accessor),
                                             !.startedAt = now]
                   /\ host' = [host EXCEPT !.pending = "timer"]
              ELSE UNCHANGED <<pc, call, host>>
    /\ UNCHANGED <<now, cacheFile, result, peer, saved, last>>

\* the 'online' event: a background check is started without asking
\* shouldCheckForUpdates()
NetworkRestored(accessor) ==
    /\ host.phase = "initialised"
    /\ pc = "idle"
    /\ pc' = "fetch"
    /\ call' = [NoCall EXCEPT !.accessor = accessor,
                              !.userVersion = getCurrentVersion(accessor),
                              !.startedAt = now]
    /\ host' = [host EXCEPT !.pending = "online"]
    /\ UNCHANGED <<now, cacheFile, result, answer, peer, saved, last>>

\* the background check has settled: performPeriodicVersionCheck() acts on
\* its result
PeriodicContinues(response, raises) ==
    /\ host.phase = "initialised"
    /\ host.pending # "none"
    /\ pc \in {"returned", "thrown"}
    /\ LET done == performPeriodicVersionCheck(result, response, raises)
       IN  host' = [NoHost EXCEPT !.phase = done.phase, !.seen = result,
                                  !.trigger = host.pending, !.handled = done.handled]
    /\ pc' = "idle"
    /\ call' = NoCall
    /\ result' = NoResult
    /\ UNCHANGED <<now, cacheFile, answer, peer, saved, last>>

\* the policies served to a running application
PeriodicDocs == {DocPolicy, DocKillSwitch, DocNoLists}

\* the instants at which the running application is looked at: on and
\* just after the start, the 1 hour mark and the 6 hour mark
PeriodicInstants ==
    {StartTime + mark + ms : mark \in {0, ForceUpdateGrace, StaleCacheAge},
                             ms \in {0, MaxMillis}}

\* a startup followed by the background checks of the running application
NextPeriodic ==
    \/ \E t \in PeriodicInstants : Tick(t)
    \/ \E accessor \in {V090, V101} : HostStarts(accessor)
    \/ FetchRejects
    \/ FetchResolves(TRUE)
    \/ \E doc \in PeriodicDocs, writeOutcome \in {"ok", "error"} :
            BodyResolves(doc, writeOutcome)
    \/ \E response \in {0, 1}, raises \in BOOLEAN : HostContinues(response, raises)
    \/ \E accessor \in {V090, V101} : TimerFires(accessor)
    \/ \E accessor \in {V090, V101} : NetworkRestored(accessor)
    \/ \E response \in {0, 1}, raises \in BOOLEAN : PeriodicContinues(response, raises)

SpecPeriodic == Init /\ [][NextPeriodic]_vars

\* JSON objects in the cache file that are no complete record, and one
\* that is
NoConfigFile == File("json", {"lastFetched", "isOfflineMode"}, NoDoc, StartTime, FALSE)
NoLastFetchedFile == File("json", {"config", "isOfflineMode"}, DocPolicy, 0, FALSE)
ZeroLastFetchedFile == File("json", CacheRecordFields, DocPolicy, 0, FALSE)
RecordFile == File("json", CacheRecordFields, DocPolicy, StartTime, FALSE)

\* what readFileSync may find at the cache path
FoundCacheFiles ==
    InitialCacheFiles \cup {NoConfigFile, NoLastFetchedFile, ZeroLastFetchedFile, RecordFile}

\* the file at the cache path is replaced from outside the controller
CacheFileReplaced(file) ==
    /\ pc = "idle"
    /\ cacheFile' = file
    /\ UNCHANGED <<now, pc, call, result, answer, peer, saved, last, host>>

\* the host reads whatever lies at the cache path
NextCache ==
    \/ \E t \in Instants : Tick(t)
    \/ \E file \in FoundCacheFiles : CacheFileReplaced(file)
    \/ CallGetCachedConfig
    \/ CallShouldCheckForUpdates
    \/ CallerContinues

SpecCache == Init /\ [][NextCache]_vars

\* the wall clock that Date.now() reads is set back
ClockSetBack(t) ==
    /\ pc = "idle"
    /\ t < now
    /\ now' = t
    /\ UNCHANGED <<cacheFile, pc, call, result, answer, peer, saved, last, host>>

\* checks under a wall clock that can be set back
NextSkew ==
    \/ \E t \in Instants : Tick(t)
    \/ \E t \in Instants : ClockSetBack(t)
    \/ \E accessor \in {V090, V101} : CallCheckVersionStatus(accessor)
    \/ FetchRejects
    \/ FetchResolves(TRUE)
    \/ \E doc \in OutageDocs, writeOutcome \in {"ok", "error"} :
            BodyResolves(doc, writeOutcome)
    \/ CallerContinues

SpecSkew == Init /\ [][NextSkew]_vars

\* the host calls isVersionBelow(current, minimum)
CallIsVersionBelow(current, minimum) ==
    /\ pc = "idle"
    /\ pc' = "answered"
    /\ answer' = [NoAnswer EXCEPT !.op = "isVersionBelow",
                                  !.args = <<current, minimum>>,
                                  !.value = isVersionBelow(current, minimum, TRUE),
                                  !.before = cacheFile]
    /\ UNCHANGED <<now, cacheFile, call, result, peer, saved, last, host>>

\* the host calls isVersionNewer(remote, local)
CallIsVersionNewer(remote, local) ==
    /\ pc = "idle"
    /\ pc' = "answered"
    /\ answer' = [NoAnswer EXCEPT !.op = "isVersionNewer",
                                  !.args = <<remote, local>>,
                                  !.value = isVersionNewer(remote, local),
                                  !.before = cacheFile]
    /\ UNCHANGED <<now, cacheFile, call, result, peer, saved, last, host>>

\* the decimal digits of n
DigitOf(n) ==
    CASE n = 0 -> "0" [] n = 1 -> "1" [] n = 2 -> "2" [] n = 3 -> "3" [] n = 4 -> "4"
      [] n = 5 -> "5" [] n = 6 -> "6" [] n = 7 -> "7" [] n = 8 -> "8" [] n = 9 -> "9"

\* the decimal numeral of a natural number
RECURSIVE Numeral(_)
Numeral(n) == IF n < 10 THEN <<DigitOf(n)>> ELSE Append(Numeral(n \div 10), DigitOf(n % 10))

\* the version string major.minor.patch
VersionString(triple) ==
    Numeral(triple[1]) \o <<".">> \o Numeral(triple[2]) \o <<".">> \o Numeral(triple[3])

\* the components of the compared versions: one and two digits
Components == {0, 2, 10}

Triples == Components \X Components \X Components

\* strings with a missing or non-numeric component
V1x2 == <<"1", ".", "x", ".", "2">>
V2 == <<"2">>
Invalid == <<"i", "n", "v", "a", "l", "i", "d">>
V20beta == <<"2", ".", "0", ".", "0", "-", "b", "e", "t", "a">>
LooseVersions == {V10, Vv100, V1x2, V2, Invalid, V20beta, NoString}

\* the version strings handed to the comparison helpers
ComparedVersions == {VersionString(triple) : triple \in Triples} \cup LooseVersions

\* the host compares versions
NextCompare ==
    \/ \E current \in ComparedVersions, minimum \in ComparedVersions :
            CallIsVersionBelow(current, minimum)
    \/ \E remote \in ComparedVersions, local \in ComparedVersions :
            CallIsVersionNewer(remote, local)
    \/ CallerContinues

SpecCompare == Init /\ [][NextCompare]_vars

----------------------------------------------------------------------------
(* Properties *)

\* the call has run to its end
Ended == pc \in {"returned", "thrown"}

\* fetchConfigWithTimeout() returned a config
FetchSucceeded == call.net.kind = "document" /\ validateConfig(call.net.doc)

\* C1: checkVersionStatus() never throws: whatever the network, the cache,
\* the cache write and the version accessor do, the call ends by returning
\* a result whose status is allowed, deprecated, force_update or blocked.
C1_NeverThrows ==
    Ended => result.outcome = "returned" /\ result.status \in Statuses

\* C2: whenever checkVersionStatus() returns isOffline = true, the status
\* is not blocked.
C2_NeverBlockedOffline ==
    (pc = "returned" /\ result.isOffline) => result.status # "blocked"

\* an offline check resolved a policy with the kill switch on, too young
\* for the stale-cache rule, and returned
C2_Witness ==
    /\ pc = "returned"
    /\ result.isOffline
    /\ result.config.isKillSwitchActive
    /\ result.cacheAge <= StaleCacheAge
    /\ result.status # "blocked"

\* the version is listed in the policy's forceUpdateVersions
InForceUpdate == Includes(call.config.forceUpdateVersions, call.userVersion)

\* C3 as stated: whenever isOffline = true, the returned status is
\* deprecated or allowed, never blocked and never force_update.
C3_OfflineOnlyWarns ==
    (pc = "returned" /\ result.isOffline) => result.status \in {"deprecated", "allowed"}

\* C3 amended: whenever isOffline = true, the returned status is never
\* blocked, and it is force_update only for a version listed in
\* forceUpdateVersions while cacheAge is at most 1 hour.
C3_OfflineSoftened ==
    (pc = "returned" /\ result.isOffline) =>
        /\ result.status \in {"deprecated", "allowed", "force_update"}
        /\ result.status = "force_update" =>
              /\ result.cacheAge <= ForceUpdateGrace
              /\ Includes(result.config.forceUpdateVersions, result.userVersion)

\* an offline check of a force-update version past the grace period
\* returned the softened status
C3_Witness ==
    /\ pc = "returned"
    /\ result.isOffline
    /\ Includes(result.config.forceUpdateVersions, result.userVersion)
    /\ result.cacheAge > ForceUpdateGrace
    /\ result.cacheAge <= StaleCacheAge
    /\ result.status = "deprecated"

\* C4: when the fetch succeeds and the fetched policy has
\* isKillSwitchActive = true, the call returns blocked with isOffline =
\* FALSE, whatever the version and the other policy fields.
C4_KillSwitchOnline ==
    (Ended /\ FetchSucceeded /\ call.net.doc.isKillSwitchActive) =>
        /\ result.outcome = "returned"
        /\ result.status = "blocked"
        /\ ~result.isOffline

\* a kill-switch policy was fetched by a version that is at the minimum
\* or above it and is listed for a forced update
C4_Witness ==
    /\ pc = "returned"
    /\ FetchSucceeded
    /\ call.net.doc.isKillSwitchActive
    /\ call.net.doc.forceUpdateVersions = <<V101>>
    /\ call.userVersion = V101
    /\ result.status = "blocked"

\* C5: when offline and cacheAge is greater than 6 hours the status is
\* allowed, for every version and every cached policy.
C5_StaleCacheAllowed ==
    (Ended /\ call.isOffline /\ call.cacheAge > StaleCacheAge) =>
        /\ result.outcome = "returned"
        /\ result.status = "allowed"
        /\ result.isOffline
        /\ result.cacheAge = call.cacheAge

\* an offline check read a kill-switch policy older than 6 hours that
\* lists the version for a forced update
C5_Witness ==
    /\ pc = "returned"
    /\ result.isOffline
    /\ result.cacheAge > StaleCacheAge
    /\ result.config.isKillSwitchActive
    /\ Includes(result.config.forceUpdateVersions, result.userVersion)
    /\ result.status = "allowed"

\* rule (1) applies: offline and cacheAge > 6 hours
StaleRule == call.isOffline /\ call.cacheAge > StaleCacheAge

\* rule (2) applies: kill switch and online
KillSwitchRule == call.config.isKillSwitchActive /\ ~call.isOffline

\* C6: for a version in forceUpdateVersions, when neither the stale-cache
\* rule nor the online kill-switch rule applies, the status is deprecated
\* if offline with cacheAge greater than 1 hour and force_update otherwise.
C6_ForceUpdate ==
    (Ended /\ InForceUpdate /\ ~StaleRule /\ ~KillSwitchRule) =>
        /\ result.outcome = "returned"
        /\ result.status = IF call.isOffline /\ call.cacheAge > ForceUpdateGrace
                           THEN "deprecated" ELSE "force_update"

\* an offline check of a force-update version with a cache exactly one
\* hour old returned force_update
C6_Witness ==
    /\ pc = "returned"
    /\ InForceUpdate
    /\ result.isOffline
    /\ result.cacheAge = ForceUpdateGrace
    /\ result.status = "force_update"

\* the version is below the policy's minimumVersion
BelowMinimum ==
    isVersionBelow(call.userVersion, call.config.minimumVersion,
                   "minimumVersion" \in call.config.has)

ReferenceRules(version, policy, offline, age) ==
    << [applies |-> offline /\ age > 6 * HOUR, status |-> "allowed"],
       [applies |-> policy.isKillSwitchActive /\ ~offline, status |-> "blocked"],
       [applies |-> version \in {policy.forceUpdateVersions[i] : i \in DOMAIN policy.forceUpdateVersions},
        status |-> IF offline /\ age > HOUR THEN "deprecated" ELSE "force_update"],
       [applies |-> isVersionBelow(version, policy.minimumVersion, TRUE),
        status |-> IF offline THEN "deprecated" ELSE "blocked"],
       [applies |-> version \in {policy.deprecatedVersions[i] : i \in DOMAIN policy.deprecatedVersions},
        status |-> "deprecated"],
       [applies |-> TRUE, status |-> "allowed"] >>

\* first match wins
ReferenceStatus(version, policy, offline, age) ==
    LET rules == ReferenceRules(version, policy, offline, age)
        first == CHOOSE i \in DOMAIN rules :
                    rules[i].applies /\ \A j \in 1..(i - 1) : ~rules[j].applies
    IN  rules[first].status

BadListEntry(doc) ==
    \/ \E i \in DOMAIN doc.deprecatedVersions : ~isValidVersionFormat(doc.deprecatedVersions[i])
    \/ \E i \in DOMAIN doc.forceUpdateVersions : ~isValidVersionFormat(doc.forceUpdateVersions[i])

\* C9: a fetched document with a list entry that is no strict triple is
\* rejected: the check goes offline and the cache is not overwritten.
C9_BadListEntryRejected ==
    (Ended /\ call.net.kind = "document" /\ BadListEntry(call.net.doc)) =>
        /\ call.isOffline
        /\ cacheFile = call.cacheBefore

\* the fetched document lacks a required field, or one of its two version
\* fields is no strict triple
FailsValidation(doc) ==
    \/ \E field \in RequiredFields : field \notin doc.has
    \/ ~isValidVersionFormat(doc.minimumVersion)
    \/ ~isValidVersionFormat(doc.latestVersion)

\* C10: a fetched document that lacks a required field or whose
\* minimumVersion or latestVersion is no strict triple fails validation;
\* the check is then offline with the policy of the cache or the fallback,
\* and the cache file is left alone.
C10_InvalidDocumentOffline ==
    (Ended /\ call.net.kind = "document" /\ FailsValidation(call.net.doc)) =>
        /\ call.isOffline
        /\ call.config \in {call.cacheBefore.config, fallbackConfig}
        /\ call.config # Stamp(call.net.doc, now)
        /\ cacheFile = call.cacheBefore
        /\ pc = "returned" => result.isOffline /\ result.config = call.config

\* a kill-switch document without its updateMessage was fetched, and the
\* check returned offline without blocking
C10_Witness ==
    /\ pc = "returned"
    /\ call.net.kind = "document"
    /\ call.net.doc = Without(DocKillSwitch, "updateMessage")
    /\ result.isOffline
    /\ result.status # "blocked"

\* the request brought a body that is no JSON, no object, or a document
\* that fails validation
MalformedPayload ==
    \/ call.net.kind \in {"unparsable_body", "non_object"}
    \/ call.net.kind = "document" /\ FailsValidation(call.net.doc)

\* what the same call gives when fetch() rejects with a network error
AfterNetworkError ==
    checkVersionStatus(call.userVersion, Net("network_error", NoDoc), call.cacheBefore, now, "none")

C12_OnlySuccessfulFetchWrites ==
    [][cacheFile' # cacheFile =>
          /\ pc = "body"
          /\ pc' \in {"returned", "thrown"}
          /\ call'.net.kind = "document"
          /\ validateConfig(call'.net.doc)
          /\ ~call'.isOffline]_vars

\* a check that timed out found a cache record and left it as it was
C12_Witness ==
    /\ pc = "returned"
    /\ call.net.kind = "timeout"
    /\ call.cacheBefore.kind = "json"
    /\ "lastFetched" \in call.cacheBefore.has
    /\ cacheFile = call.cacheBefore

\* the record cacheConfig writes for the document fetched by this call
WrittenRecord == File("json", CacheRecordFields, Stamp(call.net.doc, now), now, FALSE)

\* C13: when the fetch succeeds and passes validation, the call returns
\* isOffline = false, cacheAge = 0 and the fetched document as config, and
\* (when the write goes through) the cache holds that policy with
\* lastFetched at the current time.
C13_SuccessfulFetchResult ==
    (Ended /\ FetchSucceeded) =>
        /\ result.outcome = "returned"
        /\ ~result.isOffline
        /\ result.cacheAge = 0
        /\ result.config = Stamp(call.net.doc, now)
        /\ call.write = "ok" => cacheFile = WrittenRecord

\* what the same call gives when the cache write succeeds
AfterGoodWrite ==
    checkVersionStatus(call.userVersion, call.net, call.cacheBefore, now, "ok")

UsableRecord(file) ==
    /\ file.kind = "json"
    /\ {"config", "lastFetched"} \subseteq file.has
    /\ file.lastFetched # 0

\* C15: when the fetch fails and a parsable cache record exists, the call
\* returns the record's policy as config, isOffline = true and cacheAge =
\* now - lastFetched.
C15_OfflineFromCache ==
    (Ended /\ ~FetchSucceeded /\ UsableRecord(call.cacheBefore)) =>
        /\ result.outcome = "returned"
        /\ result.config = call.cacheBefore.config
        /\ result.isOffline
        /\ result.cacheAge = now - call.cacheBefore.lastFetched

\* C16: when the fetch fails and the cache file is absent or unparsable,
\* the call returns the fallback policy with isOffline = true and
\* cacheAge = 0.
C16_OfflineFromFallback ==
    (Ended /\ ~FetchSucceeded /\ call.cacheBefore.kind \in {"absent", "garbage"}) =>
        /\ result.outcome = "returned"
        /\ result.config = fallbackConfig
        /\ result.isOffline
        /\ result.cacheAge = 0

\* an HTTP error met an unparsable cache file at a later time than the
\* start, and the call returned the fallback policy
C16_Witness ==
    /\ pc = "returned"
    /\ call.net.kind = "http_error"
    /\ call.cacheBefore = GarbageFile
    /\ now > StartTime
    /\ result.config = fallbackConfig
    /\ result.cacheAge = 0

\* C17: getCachedConfig() on an unparsable cache file returns what it
\* returns without a cache file, the fallback policy with isOfflineMode =
\* true, and the read neither deletes nor rewrites the file.
C17_CorruptCacheLikeNoCache ==
    (pc = "answered" /\ answer.op = "getCachedConfig" /\ answer.before = GarbageFile) =>
        /\ answer.cached.config = fallbackConfig
        /\ answer.cached.isOfflineMode
        /\ answer.cached = getCachedConfig(AbsentFile, now)
        /\ cacheFile = GarbageFile

\* getCachedConfig() has answered on an unparsable cache file
C17_Witness ==
    /\ pc = "answered"
    /\ answer.op = "getCachedConfig"
    /\ answer.before = GarbageFile
    /\ answer.cached.isOfflineMode
    /\ cacheFile = GarbageFile

\* C18: after a successful check has written the cache and no other write
\* has intervened, a later check whose fetch fails returns a config equal
\* to the policy the successful check returned, and the record read back
\* has isOfflineMode = false.
C18_CacheRoundTrip ==
    (Ended /\ ~FetchSucceeded /\ saved.valid) =>
        /\ result.outcome = "returned"
        /\ result.config = saved.policy
        /\ result.isOffline
        /\ ~getCachedConfig(call.cacheBefore, now).isOfflineMode

\* the last instant of the model's clock
LastInstant == StartTime + StaleCacheAge + MaxMillis

\* a call is in progress that started early enough for the clock of the
\* model to reach its timeout
InProgressWithTimeout ==
    /\ pc \in {"fetch", "body"}
    /\ call.startedAt + networkTimeout <= LastInstant

\* C19: every checkVersionStatus() call eventually ends, whatever the
\* network does, also when it stalls after the response headers while the
\* body is read.
C19_EveryCallEnds == InProgressWithTimeout ~> Ended

\* the second instance's call has ended
PeerEnded == peer.pc \in {"returned", "thrown"}

\* the second instance's fetchConfigWithTimeout() returned a config
PeerFetchSucceeded == peer.call.net.kind = "document" /\ validateConfig(peer.call.net.doc)

\* the record the last complete write of two ended checks left
LastWrittenRecord ==
    IF peer.settledLast
    THEN File("json", CacheRecordFields, Stamp(peer.call.net.doc, peer.settledAt),
              peer.settledAt, FALSE)
    ELSE WrittenRecord

\* C20: two instances on one cache file are last-write-wins: a check whose
\* fetch succeeded returns its own fetched policy with isOffline = false
\* and does not throw, whatever the other instance does; after two
\* successful checks the cache holds the complete record of the write that
\* happened last; and a check that reads the cache the other instance
\* writes returns the policy of the record it found or the fallback,
\* never an exception.
C20_LastWriteWins ==
    /\ (Ended /\ FetchSucceeded) =>
            /\ result.outcome = "returned"
            /\ result.config = Stamp(call.net.doc, now)
            /\ ~result.isOffline
    /\ (PeerEnded /\ PeerFetchSucceeded) =>
            /\ peer.result.outcome = "returned"
            /\ peer.result.config = Stamp(peer.call.net.doc, peer.settledAt)
            /\ ~peer.result.isOffline
    /\ (/\ Ended /\ FetchSucceeded /\ call.write = "ok"
        /\ PeerEnded /\ PeerFetchSucceeded /\ peer.call.write = "ok") =>
            cacheFile = LastWrittenRecord
    /\ (Ended /\ ~FetchSucceeded) =>
            /\ result.outcome = "returned"
            /\ result.config = getCachedConfig(call.cacheBefore, now).config
    /\ (PeerEnded /\ ~PeerFetchSucceeded) =>
            /\ peer.result.outcome = "returned"
            /\ peer.result.config = getCachedConfig(peer.call.cacheBefore, peer.settledAt).config

\* the file holds one complete cache record
CompleteRecord(file) == file.kind = "json" /\ file.has = CacheRecordFields

\* C21: the cache record is never partially written: whenever the
\* controller changes the cache file, also in a write that fails or is
\* interrupted, the file afterwards holds one complete record that parses
\* as JSON (or is absent).
C21_WriteAllOrNothing ==
    [][cacheFile' # cacheFile =>
          cacheFile'.kind = "absent" \/ CompleteRecord(cacheFile')]_vars

\* the check that ended has the inputs of the check the caller kept
SameInputs ==
    /\ call.userVersion = last.call.userVersion
    /\ call.cacheBefore = last.call.cacheBefore
    /\ now = last.at
    /\ call.net = last.call.net

\* the check that ended and the one the caller kept both fetched the same
\* valid document for the same current version
SameDocumentServed ==
    /\ FetchSucceeded
    /\ call.net = last.call.net
    /\ call.userVersion = last.call.userVersion

\* C22: a checkVersionStatus() call does not depend on earlier calls of
\* the instance: with the current version, cache content, clock value and
\* network response of the previous call it ends exactly as that call did,
\* and two consecutive calls that fetch the same document end with the
\* same status, although the clock and the cache have changed in between.
C22_IndependentOfEarlierCalls ==
    (Ended /\ last.valid) =>
        /\ SameInputs => result = last.result
        /\ SameDocumentServed =>
              /\ result.outcome = last.result.outcome
              /\ result.status = last.result.status

\* a second successful check with the inputs of the first, whose cache
\* write had failed, has returned blocked
C22_Witness ==
    /\ pc = "returned"
    /\ last.valid
    /\ SameInputs
    /\ FetchSucceeded
    /\ last.call.write = "error"
    /\ result.status = "blocked"

\* a < b for triples of integers, component by component
TripleLess(a, b) ==
    \/ a[1] < b[1]
    \/ a[1] = b[1] /\ a[2] < b[2]
    \/ a[1] = b[1] /\ a[2] = b[2] /\ a[3] < b[3]

\* the triple a loose version string stands for when each missing or
\* non-numeric component counts as 0
CountsAs ==
    {<<V10, <<1, 0, 0>>>>, <<Vv100, <<0, 0, 0>>>>, <<V1x2, <<1, 0, 2>>>>,
     <<V2, <<2, 0, 0>>>>, <<Invalid, <<0, 0, 0>>>>, <<V20beta, <<2, 0, 0>>>>,
     <<NoString, <<0, 0, 0>>>>}
      \cup {<<VersionString(triple), triple>> : triple \in Triples}

UnparsableAgainstValid ==
    /\ pc = "answered"
    /\ answer.op = "isVersionBelow"
    /\ ~isValidVersionFormat(answer.args[1])
    /\ isValidVersionFormat(answer.args[2])

ZeroTriple == <<0, 0, 0>>

AnsweredShouldCheck == pc = "answered" /\ answer.op = "shouldCheckForUpdates"

\* C25: shouldCheckForUpdates() returns true exactly when the cache file
\* holds a usable record whose age, the current time minus its
\* lastFetched, exceeds 1 hour; it starts no fetch and leaves the file as
\* it was.
C25_ShouldCheckAfterOneHour ==
    AnsweredShouldCheck =>
        /\ answer.should <=>
              /\ UsableRecord(answer.before)
              /\ now - answer.before.lastFetched > HOUR
        /\ call = NoCall
        /\ cacheFile = answer.before

\* shouldCheckForUpdates() has answered false on a record exactly one
\* hour old
C25_Witness ==
    /\ AnsweredShouldCheck
    /\ UsableRecord(answer.before)
    /\ now - answer.before.lastFetched = HOUR
    /\ ~answer.should

\* the check ended after a failed fetch without a usable cache record
EndedOnFallback == Ended /\ ~FetchSucceeded /\ ~UsableRecord(call.cacheBefore)

\* C26: when the fetch fails and no usable cache exists, the check
\* returns a status that is neither blocked nor force_update, whatever the
\* current version, and allowed when the current version is at least
\* 1.0.0.
C26_FallbackLetsAppStart ==
    EndedOnFallback =>
        /\ result.outcome = "returned"
        /\ result.status \notin {"blocked", "force_update"}
        /\ result.userVersion \in {V100, V101, V120} => result.status = "allowed"

\* version 1.0.1 met a network error and a cache file without a record,
\* and was allowed
C26_Witness ==
    /\ EndedOnFallback
    /\ call.net.kind = "network_error"
    /\ call.cacheBefore = EmptyObjectFile
    /\ result.userVersion = V101
    /\ result.status = "allowed"

\* the policy carries lastUpdated = t
StampedAt(config, t) == "lastUpdated" \in config.has /\ config.lastUpdated = t

\* C27: after a successful fetch the policy the check works with, the
\* policy it returns and the policy it has written to the cache all carry
\* the controller's clock at fetch time as lastUpdated, whatever
\* lastUpdated the payload carried.
C27_LastUpdatedFromClock ==
    (Ended /\ FetchSucceeded) =>
        /\ StampedAt(call.config, now)
        /\ pc = "returned" => StampedAt(result.config, now)
        /\ call.write = "ok" => StampedAt(cacheFile.config, now)

\* a document carrying an older lastUpdated was fetched after the start,
\* returned and cached
C27_Witness ==
    /\ pc = "returned"
    /\ FetchSucceeded
    /\ StampedAt(call.net.doc, PayloadStamp)
    /\ call.write = "ok"
    /\ now > StartTime
    /\ StampedAt(result.config, now)
    /\ StampedAt(cacheFile.config, now)

\* C28: when the version accessor throws, checkVersionStatus() still
\* returns a result, with userVersion = "1.0.0" and the status that
\* determineVersionStatus gives for "1.0.0".
C28_AccessorFailureDefaults ==
    (Ended /\ call.accessor \in AccessorOutcomes) =>
        /\ result.outcome = "returned"
        /\ result.userVersion = V100
        /\ result.status =
              determineVersionStatus(V100, call.config, call.isOffline, call.cacheAge)

\* C29: if checkVersionStatus() or the handling of its result raises
\* during startup, init() goes on to initialise the modules and does not
\* quit; it quits at startup only when the handler returned false for a
\* blocked or force_update status.
C29_FailedCheckLetsAppStart ==
    /\ (host.seen.outcome = "thrown" \/ host.handled = "raised") =>
            host.phase = "initialised"
    /\ host.phase = "quit" =>
            /\ host.handled = "false"
            /\ host.seen.outcome = "returned"
            /\ host.seen.status \in {"blocked", "force_update"}

\* the handling of a blocked status raised and the host initialised its
\* modules
C29_Witness ==
    /\ host.phase = "initialised"
    /\ host.handled = "raised"
    /\ host.seen.status = "blocked"

HasLists(config) == ListFields \subseteq config.has

\* C31: every policy the controller has persisted carries its
\* deprecatedVersions and forceUpdateVersions lists, and neither the check
\* that cached it nor a later offline check that reads it back fails in
\* determineVersionStatus.
C31_PersistedPolicyEvaluable ==
    /\ CompleteRecord(cacheFile) => HasLists(cacheFile.config)
    /\ (Ended /\ (FetchSucceeded \/ CompleteRecord(call.cacheBefore))) =>
            result.outcome = "returned"

\* how strict a status is: allowed < deprecated < force_update < blocked
Strictness(status) ==
    CASE status = "allowed" -> 0
      [] status = "deprecated" -> 1
      [] status = "force_update" -> 2
      [] status = "blocked" -> 3

\* the status the ended check's version and policy get online
OnlineStatus(cacheAge) ==
    determineVersionStatus(call.userVersion, call.config, FALSE, cacheAge)

\* C32: going offline never makes the verdict stricter: the status an
\* offline check returned is at most as strict as the status its version
\* and policy get with isOffline = false (whatever cache age is passed),
\* whenever that gives a status.
C32_OfflineNeverStricter ==
    (pc = "returned" /\ call.isOffline) =>
        \A cacheAge \in {0, call.cacheAge} :
            OnlineStatus(cacheAge) \in Statuses =>
                Strictness(result.status) <= Strictness(OnlineStatus(cacheAge))

\* an offline check returned deprecated for a version and policy that are
\* blocked online
C32_Witness ==
    /\ pc = "returned"
    /\ call.isOffline
    /\ result.status = "deprecated"
    /\ OnlineStatus(0) = "blocked"

\* a failed check has ended right after another failed check of the same
\* version
ConsecutiveFailedChecks ==
    /\ Ended /\ call.isOffline
    /\ last.valid /\ last.call.isOffline
    /\ call.userVersion = last.call.userVersion

\* what holds across two consecutive failed checks: the cache file is the
\* same, with a usable record the reported cacheAge has grown by the time
\* that passed, and the status has not become stricter
NoInventedFreshness ==
    ConsecutiveFailedChecks =>
        /\ call.cacheBefore = last.call.cacheBefore
        /\ cacheFile = call.cacheBefore
        /\ UsableRecord(call.cacheBefore) =>
              call.cacheAge - last.call.cacheAge = now - last.at
        /\ (pc = "returned" /\ last.result.outcome = "returned") =>
              Strictness(result.status) <= Strictness(last.result.status)

\* C33 as stated: failed checks never invent freshness, and every failed
\* check made more than 6 hours after the last successful fetch returns
\* allowed.
C33_AllowedSixHoursAfterFetch ==
    /\ NoInventedFreshness
    /\ (/\ Ended /\ call.isOffline
        /\ last.valid /\ last.fetchedAt # 0
        /\ now - last.fetchedAt > StaleCacheAge) =>
            result.outcome = "returned" /\ result.status = "allowed"

\* C33 amended: failed checks never invent freshness, and every failed
\* check made more than 6 hours after the lastFetched of the cached record
\* returns allowed.
C33_AllowedSixHoursAfterRecord ==
    /\ NoInventedFreshness
    /\ (/\ Ended /\ call.isOffline
        /\ UsableRecord(call.cacheBefore)
        /\ now - call.cacheBefore.lastFetched > StaleCacheAge) =>
            result.outcome = "returned" /\ result.status = "allowed"

\* the second of two failed checks on a record with a forced version came
\* more than 6 hours after the fetch and was allowed, after force_update
C33_Witness ==
    /\ ConsecutiveFailedChecks
    /\ UsableRecord(call.cacheBefore)
    /\ last.result.status = "force_update"
    /\ now - call.cacheBefore.lastFetched > StaleCacheAge
    /\ result.status = "allowed"

\* C34: without a usable cache record shouldCheckForUpdates() returns
\* false at every time, so the periodic timer starts a background check
\* only when it found a usable record.
C34_NoCacheNoPeriodicCheck ==
    /\ (answer.op = "shouldCheckForUpdates" /\ ~UsableRecord(answer.before)) =>
            ~answer.should
    /\ host.pending = "timer" =>
            /\ answer.op = "shouldCheckForUpdates"
            /\ answer.should
            /\ UsableRecord(answer.before)

\* more than six hours after the start the timer found no usable cache
\* record, and no background check was started
C34_Witness ==
    /\ host.phase = "initialised"
    /\ answer.op = "shouldCheckForUpdates"
    /\ ~UsableRecord(answer.before)
    /\ now > StartTime + StaleCacheAge
    /\ ~answer.should
    /\ pc = "idle"
    /\ host.pending = "none"

\* the host has acted on the result of a background check
AfterPeriodicCheck == host.trigger \in {"timer", "online"}

\* C37: after a background check that raised or returned allowed or
\* deprecated the status handler was not called and the app runs on; the
\* handler is called only for blocked and force_update, and the app has
\* quit after a background check only when the handler returned false.
C37_PeriodicActsOnlyOnBlocking ==
    AfterPeriodicCheck =>
        /\ (host.seen.outcome = "thrown" \/ host.seen.status \in {"allowed", "deprecated"}) =>
                (host.handled = "none" /\ host.phase = "initialised")
        /\ host.handled # "none" => host.seen.status \in {"blocked", "force_update"}
        /\ host.phase = "quit" => host.handled = "false"

\* a background check started by the timer returned deprecated, and the
\* app runs on without the handler having been called
C37_Witness ==
    /\ host.trigger = "timer"
    /\ host.seen.outcome = "returned"
    /\ host.seen.status = "deprecated"
    /\ host.handled = "none"
    /\ host.phase = "initialised"

\* a comparison helper has answered
AnsweredComparison ==
    pc = "answered" /\ answer.op \in {"isVersionBelow", "isVersionNewer"}

\* C36: on all version strings, valid or not, isVersionBelow(a, b) gives
\* what isVersionNewer(b, a) gives, and isVersionBelow(a, b) and
\* isVersionBelow(b, a) are never both true.
C36_HelpersAreMirrorImages ==
    AnsweredComparison =>
        LET a == answer.args[1]
            b == answer.args[2]
        IN  /\ answer.op = "isVersionBelow" =>
                    /\ answer.value <=> isVersionNewer(b, a)
                    /\ ~(answer.value /\ isVersionBelow(b, a, TRUE))
            /\ answer.op = "isVersionNewer" =>
                    (answer.value <=> isVersionBelow(b, a, TRUE))

\* isVersionNewer("10.2.0", "2.0.0-beta") has answered true
C36_Witness ==
    /\ AnsweredComparison
    /\ answer.op = "isVersionNewer"
    /\ answer.args = <<VersionString(<<10, 2, 0>>), V20beta>>
    /\ answer.value

\* getCachedConfig() has answered
AnsweredGetCachedConfig == pc = "answered" /\ answer.op = "getCachedConfig"

\* C38: getCachedConfig() returns the record of the file only when the
\* file parses as JSON and has a config and a lastFetched other than 0;
\* on a JSON file that lacks config, lacks lastFetched or has lastFetched
\* = 0 it returns what it returns on an absent file: the fallback policy
\* stamped with the current time, with isOfflineMode = true.
C38_AcceptsOnlyCompleteRecord ==
    AnsweredGetCachedConfig =>
        IF UsableRecord(answer.before)
        THEN /\ answer.cached.config = answer.before.config
             /\ answer.cached.lastFetched = answer.before.lastFetched
        ELSE /\ answer.cached = getCachedConfig(AbsentFile, now)
             /\ answer.cached.config = fallbackConfig
             /\ answer.cached.lastFetched = now
             /\ answer.cached.isOfflineMode

\* getCachedConfig() has answered with the fallback record on a JSON file
\* that has a config and lastFetched = 0
C38_Witness ==
    /\ AnsweredGetCachedConfig
    /\ answer.before = ZeroLastFetchedFile
    /\ answer.cached.config = fallbackConfig
    /\ answer.cached.isOfflineMode

\* the ended check read a cache record stamped later than the clock shows
RecordFromLaterClock ==
    /\ Ended
    /\ ~FetchSucceeded
    /\ UsableRecord(call.cacheBefore)
    /\ call.cacheBefore.lastFetched > now

\* C35: the cacheAge of every returned result is at least 0, also when
\* the clock at the read is earlier than the lastFetched of the cached
\* record; and such a record gets a status no stricter than the one it
\* gets at age 0.
C35_CacheAgeNonNegative ==
    (Ended /\ result.outcome = "returned") =>
        /\ result.cacheAge >= 0
        /\ RecordFromLaterClock =>
                LET fresh == determineVersionStatus(call.userVersion, result.config, TRUE, 0)
                IN  fresh \in Statuses =>
                        Strictness(result.status) <= Strictness(fresh)

====
